---- MODULE Spec2Model ----
(***************************************************************************)
(* The work-package scheduler of CodingTeam (src/team/coding_team.py):     *)
(* the batch loop execute_work_packages, the readiness computation         *)
(* _get_available_packages, the per-package task _execute_single_package   *)
(* and the router _find_agent_for_package / _get_file_type.                *)
(*                                                                         *)
(* A file path is a sequence of one-character strings, so that lower(),    *)
(* endswith() and the substring tests of _get_file_type are computed.      *)
(***************************************************************************)
EXTENDS Integers, Sequences, FiniteSets, TLC

VARIABLES
    work_packages,          \* self.work_packages: the declared list
    agents,                 \* self.agents: names of the registered agents
    batch_processing_size,  \* self.config.batch_processing_size
    completed_packages,     \* self.completed_packages: list of package ids
    pc,                     \* position of execute_work_packages
    batch,                  \* the local `batch`, as positions in work_packages
    taskpc,                 \* position of each package's _execute_single_package task
    blocked_packages,       \* the local `blocked_packages` logged at the break
    dispatch_count,         \* history: times each package was handed to a task
    outcome,                \* history: how each package's latest task ended
    ever_failed,            \* history: some task of the package failed
    iterations,             \* history: loop bodies entered
    ever_ready,             \* history: positions _get_available_packages has returned
    routed_agent,           \* history: the agent each package's task was routed to
    steps,                  \* ProjectPlan.steps: the list of ProjectStep objects
    add_calls,              \* history: calls of ProjectPlan.add_step
    role,                   \* BaseAgent.role
    messages,               \* BaseAgent.messages
    is_active,              \* BaseAgent.is_active
    sent,                   \* history: the arguments of each send_message call
    returned,               \* the message the latest call returned, if any
    config,                 \* the CodingTeamConfig objects a caller has constructed
    state,                  \* CodingTeam.state
    current_task_id,        \* BaseAgent.current_task_id of each registered agent
    tasks,                  \* ProgressTracker.tasks: the status of each progress task
    report,                 \* the final report solve_problem returned, if any
    project_task,           \* the status of the project-level progress task
    shut_down,              \* shutdown_team has run
    task_progress,          \* ProgressTracker.tasks: the TaskProgress objects by task id
    completed_fired,        \* history: task_completed callbacks fired for each task
    memory_cache,           \* CacheManager.memory_cache: the entries by full key
    namespace_stats,        \* CacheManager.namespace_stats
    access_order,           \* the full keys from least to most recently accessed
    max_memory_bytes,       \* CacheManager.max_memory_bytes
    set_calls,              \* history: calls of CacheManager.set
    stored,                 \* history: the value last set for each (namespace, key)
    last_op,                \* history: the latest CacheManager operation
    disk                    \* the files of the workspace: content by path

\* the state of the CodingTeam and of the run of execute_work_packages
team_vars == <<work_packages, agents, batch_processing_size, completed_packages, pc,
               batch, taskpc, blocked_packages, dispatch_count, outcome, ever_failed,
               iterations, ever_ready, routed_agent>>

\* the state of a ProjectPlan
plan_vars == <<steps, add_calls>>

\* the state of a BaseAgent
agent_vars == <<role, messages, is_active, sent, returned>>

\* a CodingTeamConfig under construction
config_vars == <<config>>

\* the team state solve_problem moves through
run_vars == <<state, report, project_task, shut_down>>

\* the progress tasks the agents open and close around a step
progress_vars == <<current_task_id, tasks>>

\* the state of a ProgressTracker
tracker_vars == <<task_progress, completed_fired>>

\* the state of a CacheManager
cache_vars == <<memory_cache, namespace_stats, access_order, max_memory_bytes,
                set_calls, stored, last_op>>

\* the workspace directory of an AgentTools
file_vars == <<disk>>

\* the state of the tools
tool_vars == <<tracker_vars, cache_vars, file_vars>>

\* the state the scheduler's own statements do not touch
other_vars == <<plan_vars, agent_vars, config_vars, run_vars, progress_vars, tool_vars>>

vars == <<team_vars, other_vars>>

----------------------------------------------------------------------------
(* Bounds of the model *)

\* dispatch_count saturates here
MaxDispatch == 2

\* iterations saturates here
MaxIterations == 5

Min(a, b) == IF a <= b THEN a ELSE b

SeqToSet(s) == {s[k] : k \in 1..Len(s)}

----------------------------------------------------------------------------
(* Strings as character sequences *)

UpperChars == <<"A","B","C","D","E","F","G","H","I","J","K","L","M",
                "N","O","P","Q","R","S","T","U","V","W","X","Y","Z">>

LowerChars == <<"a","b","c","d","e","f","g","h","i","j","k","l","m",
                "n","o","p","q","r","s","t","u","v","w","x","y","z">>

\* str.lower(), one character
LowerChar(c) ==
    IF \E k \in 1..Len(UpperChars) : UpperChars[k] = c
    THEN LowerChars[CHOOSE k \in 1..Len(UpperChars) : UpperChars[k] = c]
    ELSE c

\* str.lower()
lower(s) == [k \in 1..Len(s) |-> LowerChar(s[k])]

\* str.endswith(suffix)
endswith(s, suffix) ==
    /\ Len(suffix) <= Len(s)
    /\ SubSeq(s, Len(s) - Len(suffix) + 1, Len(s)) = suffix

\* `x in s` for strings
contains(s, x) ==
    \E k \in 0..(Len(s) - Len(x)) : SubSeq(s, k + 1, k + Len(x)) = x

----------------------------------------------------------------------------
(* _get_file_type *)

_get_file_type(file_path) ==
    LET path_lower == lower(file_path) IN
    IF file_path = <<>> THEN "unknown"
    ELSE IF \E x \in {<<"t","e","s","t">>, <<"s","p","e","c">>} : contains(path_lower, x)
        THEN "test"
    ELSE IF \E e \in {<<".","p","y">>, <<".","p","y","x">>} : endswith(path_lower, e)
        THEN "python"
    ELSE IF \E e \in {<<".","j","s">>, <<".","t","s">>, <<".","j","s","x">>,
                      <<".","t","s","x">>} : endswith(path_lower, e)
        THEN "javascript"
    ELSE IF \E e \in {<<".","h","t","m","l">>, <<".","h","t","m">>} : endswith(path_lower, e)
        THEN "html"
    ELSE IF \E e \in {<<".","c","s","s">>, <<".","s","c","s","s">>,
                      <<".","s","a","s","s">>} : endswith(path_lower, e)
        THEN "css"
    ELSE IF \E e \in {<<".","j","s","o","n">>, <<".","y","a","m","l">>,
                      <<".","y","m","l">>} : endswith(path_lower, e)
        THEN "config"
    ELSE IF \E x \in {<<"d","o","c","k","e","r">>, <<"d","e","p","l","o","y">>,
                      <<"c","i">>, <<"c","d">>} : contains(path_lower, x)
        THEN "deploy"
    ELSE IF \E x \in {<<"m","l">>, <<"m","o","d","e","l">>, <<"t","r","a","i","n">>,
                      <<"p","r","e","d","i","c","t">>, <<"d","a","t","a">>} :
                contains(path_lower, x)
        THEN "ml"
    ELSE IF \E x \in {<<"a","p","i">>, <<"s","e","r","v","e","r">>,
                      <<"b","a","c","k","e","n","d">>} : contains(path_lower, x)
        THEN "api"
    ELSE "generic"

----------------------------------------------------------------------------
(* _find_agent_for_package *)

\* the dict agent_mapping, as its set of key/value pairs
agent_mapping ==
    { <<"backend_engineer", "backend_specialist">>,
      <<"frontend_engineer", "frontend_specialist">>,
      <<"fullstack_engineer", "fullstack_specialist">>,
      <<"ml_engineer", "ml_specialist">>,
      <<"devops_engineer", "devops_specialist">>,
      <<"qa_engineer", "qa_specialist">>,
      <<"requirements_analyst", "requirements_analyst">> }

\* agent_mapping.get(agent_name, agent_name)
mapped_name(agent_name) ==
    IF \E kv \in agent_mapping : kv[1] = agent_name
    THEN (CHOOSE kv \in agent_mapping : kv[1] = agent_name)[2]
    ELSE agent_name

\* dict.get(name): the agent, or "None"
agents_get(registry, name) == IF name \in registry THEN name ELSE "None"

\* a router whose fallback looks at the first file only
RouteByFirstFile(registry, package) ==
    LET first_type == IF package.files_to_create = <<>> THEN "unknown"
                      ELSE _get_file_type(package.files_to_create[1])
    IN  IF mapped_name(package.agent) \in registry
            THEN mapped_name(package.agent)
        ELSE IF first_type \in {"python", "api"}
            THEN agents_get(registry, "backend_specialist")
        ELSE IF first_type \in {"html", "css", "javascript"}
            THEN agents_get(registry, "frontend_specialist")
        ELSE IF first_type \in {"ml", "data"} THEN agents_get(registry, "ml_specialist")
        ELSE IF first_type \in {"docker", "deploy"}
            THEN agents_get(registry, "devops_specialist")
        ELSE IF first_type \in {"test"} THEN agents_get(registry, "qa_specialist")
        ELSE agents_get(registry, "fullstack_specialist")

\* a router without the default of the last branch
RouteWithoutDefault(registry, package) ==
    LET file_types == [k \in 1..Len(package.files_to_create) |->
                          _get_file_type(package.files_to_create[k])]
        any(S) == \E k \in 1..Len(file_types) : file_types[k] \in S
    IN  IF mapped_name(package.agent) \in registry
            THEN mapped_name(package.agent)
        ELSE IF any({"python", "api"}) THEN agents_get(registry, "backend_specialist")
        ELSE IF any({"html", "css", "javascript"})
            THEN agents_get(registry, "frontend_specialist")
        ELSE IF any({"ml", "data"}) THEN agents_get(registry, "ml_specialist")
        ELSE IF any({"docker", "deploy"}) THEN agents_get(registry, "devops_specialist")
        ELSE IF any({"test"}) THEN agents_get(registry, "qa_specialist")
        ELSE "None"

\* The agent chosen for a package, "None" when there is none.
_find_agent_for_package(registry, package) ==
    LET file_types == [k \in 1..Len(package.files_to_create) |->
                          _get_file_type(package.files_to_create[k])]
        any(S) == \E k \in 1..Len(file_types) : file_types[k] \in S
    IN  IF mapped_name(package.agent) \in registry
            THEN mapped_name(package.agent)
        ELSE IF any({"python", "api"}) THEN agents_get(registry, "backend_specialist")
        ELSE IF any({"html", "css", "javascript"})
            THEN agents_get(registry, "frontend_specialist")
        ELSE IF any({"ml", "data"}) THEN agents_get(registry, "ml_specialist")
        ELSE IF any({"docker", "deploy"}) THEN agents_get(registry, "devops_specialist")
        ELSE IF any({"test"}) THEN agents_get(registry, "qa_specialist")
        ELSE agents_get(registry, "fullstack_specialist")

----------------------------------------------------------------------------
(* Work packages and registries the run may start from *)

Package(id, agent, deps, files) ==
    [package_id |-> id, agent |-> agent, dependencies |-> deps, files_to_create |-> files]

app_py == <<"a","p","p",".","p","y">>

notes_txt == <<"n","o","t","e","s",".","t","x","t">>

\* a package routed by its agent tag
Tagged(id, deps) == Package(id, "backend_engineer", deps, <<app_py>>)

\* a package whose tag names no agent and whose file gives no hint
Untagged(id, deps) == Package(id, "unknown_tag", deps, <<notes_txt>>)

\* dependency graphs, as lists of <<package_id, dependencies>>
Diamond == << <<"A", {}>>, <<"B", {"A"}>>, <<"C", {"A"}>>, <<"D", {"B", "C"}>> >>

Chain == << <<"A", {}>>, <<"B", {"A"}>>, <<"C", {"B"}>> >>

Independent == << <<"A", {}>>, <<"B", {}>>, <<"C", {}>>, <<"D", {}>> >>

DeclaredLate == << <<"B", {"A"}>>, <<"A", {}>>, <<"C", {}>> >>

Cyclic == << <<"X", {"Y"}>>, <<"Y", {"X"}>>, <<"Z", {}>> >>

Dangling == << <<"A", {}>>, <<"B", {"missing"}>> >>

Graphs == {Diamond, Chain, Independent, DeclaredLate, Cyclic, Dangling}

\* The package lists: every package of a graph tagged, or exactly one untagged.
PackageLists ==
    { [k \in 1..Len(g) |-> IF k = u THEN Untagged(g[k][1], g[k][2])
                                    ELSE Tagged(g[k][1], g[k][2])] :
        g \in Graphs, u \in 0..4 }

\* initialize_team registers these seven agents
AllAgents == {"backend_specialist", "frontend_specialist", "fullstack_specialist",
              "ml_specialist", "devops_specialist", "qa_specialist",
              "requirements_analyst"}

\* self.agents: as registered, without the default agent, or still empty
Registries == {AllAgents, AllAgents \ {"fullstack_specialist"}, {}}

\* self.config.batch_processing_size (default 3)
BatchSizes == 1..3

Positions == 1..Len(work_packages)

IdAt(i) == work_packages[i].package_id

----------------------------------------------------------------------------
(* _get_available_packages *)

\* The positions of the packages appended to `available`, scanning the first n.
RECURSIVE AvailableUpTo(_, _, _)
AvailableUpTo(packages, completed, n) ==
    IF n = 0 THEN <<>>
    ELSE LET package == packages[n]
             rest == AvailableUpTo(packages, completed, n - 1)
         IN  IF package.package_id \in SeqToSet(completed) THEN rest
             ELSE IF \A dep \in package.dependencies : dep \in SeqToSet(completed)
                 THEN Append(rest, n)
             ELSE rest

\* the readiness test without the dependency check of line 308
RECURSIVE NotCompletedPositions(_, _, _)
NotCompletedPositions(packages, completed, n) ==
    IF n = 0 THEN <<>>
    ELSE IF packages[n].package_id \in SeqToSet(completed)
        THEN NotCompletedPositions(packages, completed, n - 1)
    ELSE Append(NotCompletedPositions(packages, completed, n - 1), n)

AvailableIgnoringDependencies(packages, completed) ==
    NotCompletedPositions(packages, completed, Len(packages))

\* the number of completions after which every dependency of package n was met
UnblockedAt(packages, completed, n) ==
    CHOOSE c \in 0..Len(completed) :
        /\ packages[n].dependencies \subseteq SeqToSet(SubSeq(completed, 1, c))
        /\ \A d \in 0..(c - 1) :
               ~(packages[n].dependencies \subseteq SeqToSet(SubSeq(completed, 1, d)))

RECURSIVE InUnblockOrder(_, _, _)
InUnblockOrder(packages, completed, c) ==
    IF c < 0 THEN <<>>
    ELSE InUnblockOrder(packages, completed, c - 1) \o
         SelectSeq(AvailableUpTo(packages, completed, Len(packages)),
                   LAMBDA n : UnblockedAt(packages, completed, n) = c)

\* a ready queue: the available packages in the order they became ready
AvailableInUnblockOrder(packages, completed) ==
    InUnblockOrder(packages, completed, Len(completed))

\* the readiness test without the skip of completed ids of lines 303-304
RECURSIVE DependenciesMetUpTo(_, _, _)
DependenciesMetUpTo(packages, completed, n) ==
    IF n = 0 THEN <<>>
    ELSE IF \A dep \in packages[n].dependencies : dep \in SeqToSet(completed)
        THEN Append(DependenciesMetUpTo(packages, completed, n - 1), n)
    ELSE DependenciesMetUpTo(packages, completed, n - 1)

AvailableWithCompleted(packages, completed) ==
    DependenciesMetUpTo(packages, completed, Len(packages))

_get_available_packages(packages, completed) ==
    AvailableUpTo(packages, completed, Len(packages))

----------------------------------------------------------------------------
(* The objects outside the run of execute_work_packages, as constructed *)

\* ProjectPlan(project_name, description): steps = []
PlanInit ==
    /\ steps = <<>>
    /\ add_calls = 0

\* BaseAgent.__init__: messages = [], is_active = True
AgentInit ==
    /\ role \in {"Test Agent", "Backend Specialist"}
    /\ messages = <<>>
    /\ is_active = TRUE
    /\ sent = <<>>
    /\ returned = <<>>

\* an object is identified by its position in its collection; 0 stands for None
None == 0

\* no CodingTeamConfig constructed yet
ConfigInit == config = <<>>

\* BaseAgent.__init__ line 50: current_task_id = None; ProgressTracker: tasks = {}
ProgressInit ==
    /\ current_task_id = [a \in agents |-> None]
    /\ tasks = [i \in Positions |-> "absent"]

\* a dict with no key
EmptyDict == [k \in {} |-> 0]

\* ProgressTracker.__init__: tasks = {}
TrackerInit ==
    /\ task_progress = EmptyDict
    /\ completed_fired = EmptyDict

\* CacheManager.__init__ apart from the memory limit: memory_cache = {},
\* namespace_stats an empty defaultdict
EmptyCache ==
    /\ memory_cache = EmptyDict
    /\ namespace_stats = EmptyDict
    /\ access_order = <<>>
    /\ set_calls = 0
    /\ stored = EmptyDict
    /\ last_op = [op |-> "none", namespace |-> <<>>, key |-> <<>>, evicted |-> FALSE]

\* CacheManager.__init__ with max_memory_mb = 100
CacheInit ==
    /\ EmptyCache
    /\ max_memory_bytes = 100 * 1024 * 1024

\* a workspace without files
FileInit == disk = EmptyDict

ToolInit == TrackerInit /\ CacheInit /\ FileInit

OtherInit ==
    /\ PlanInit /\ AgentInit /\ role = "Test Agent"
    /\ ConfigInit /\ ProgressInit /\ ToolInit

----------------------------------------------------------------------------
(* The state after CodingTeam.__init__ and analyze_problem_systematically *)

Init ==
    /\ work_packages \in PackageLists
    /\ agents \in Registries
    /\ batch_processing_size \in BatchSizes
    /\ completed_packages = <<>>
    /\ pc = "loop"
    /\ batch = <<>>
    /\ taskpc = [i \in Positions |-> "idle"]
    /\ blocked_packages = <<>>
    /\ dispatch_count = [i \in Positions |-> 0]
    /\ outcome = [i \in Positions |-> "none"]
    /\ ever_failed = [i \in Positions |-> FALSE]
    /\ iterations = 0
    /\ ever_ready = {}
    /\ routed_agent = [i \in Positions |-> "none"]
    /\ state = "EXECUTING"
    /\ report = <<>>
    /\ project_task = "RUNNING"
    /\ shut_down = FALSE
    /\ OtherInit

----------------------------------------------------------------------------
(* execute_work_packages: one pass of the while loop up to the gather *)

\* the Python slice s[:n]
SliceTo(s, n) ==
    IF n >= 0 THEN SubSeq(s, 1, Min(n, Len(s)))
    ELSE SubSeq(s, 1, IF Len(s) + n > 0 THEN Len(s) + n ELSE 0)

\* the batch without the cut to batch_processing_size
WholeAvailableList(available, size) == available

\* lines 284-285: the batch cut from the available list
BatchOf(available, size) == SliceTo(available, Min(Len(available), size))

\* a blocked list that names every package, completed or not
RECURSIVE AllPackageIdsUpTo(_, _, _)
AllPackageIdsUpTo(packages, completed, n) ==
    IF n = 0 THEN <<>>
    ELSE Append(AllPackageIdsUpTo(packages, completed, n - 1), packages[n].package_id)

\* lines 279: the packages whose id is not in completed_packages, in list order
RECURSIVE NotCompletedUpTo(_, _, _)
NotCompletedUpTo(packages, completed, n) ==
    IF n = 0 THEN <<>>
    ELSE IF packages[n].package_id \in SeqToSet(completed)
        THEN NotCompletedUpTo(packages, completed, n - 1)
    ELSE Append(NotCompletedUpTo(packages, completed, n - 1), packages[n].package_id)

Saturate(n, max) == IF n < max THEN n + 1 ELSE max

\* line 274: the loop condition is false
LoopExit ==
    /\ pc = "loop"
    /\ ~(Len(completed_packages) < Len(work_packages))
    /\ pc' = "done"
    /\ UNCHANGED <<work_packages, agents, batch_processing_size, completed_packages,
                   batch, taskpc, blocked_packages, dispatch_count, outcome,
                   ever_failed, iterations>>
    /\ UNCHANGED <<ever_ready, routed_agent>>
    /\ UNCHANGED other_vars

\* lines 276-281: nothing is available, log the blocked packages and break
LoopBlocked ==
    /\ pc = "loop"
    /\ Len(completed_packages) < Len(work_packages)
    /\ _get_available_packages(work_packages, completed_packages) = <<>>
    /\ blocked_packages' =
           NotCompletedUpTo(work_packages, completed_packages, Len(work_packages))
    /\ iterations' = Saturate(iterations, MaxIterations)
    /\ pc' = "done"
    /\ UNCHANGED <<work_packages, agents, batch_processing_size, completed_packages,
                   batch, taskpc, dispatch_count, outcome, ever_failed>>
    /\ UNCHANGED <<ever_ready, routed_agent>>
    /\ UNCHANGED other_vars

\* lines 276-292: cut the batch and hand each package to a task of the gather
LoopDispatch ==
    /\ pc = "loop"
    /\ Len(completed_packages) < Len(work_packages)
    /\ LET available == _get_available_packages(work_packages, completed_packages)
           selected == BatchOf(available, batch_processing_size)
       IN  /\ available # <<>>
           /\ batch' = selected
           /\ taskpc' = [i \in Positions |->
                            IF i \in SeqToSet(selected) THEN "created" ELSE "idle"]
           /\ dispatch_count' = [i \in Positions |->
                            IF i \in SeqToSet(selected)
                            THEN Saturate(dispatch_count[i], MaxDispatch)
                            ELSE dispatch_count[i]]
           /\ outcome' = [i \in Positions |->
                            IF i \in SeqToSet(selected) THEN "none" ELSE outcome[i]]
    /\ iterations' = Saturate(iterations, MaxIterations)
    /\ pc' = "gather"
    /\ UNCHANGED <<work_packages, agents, batch_processing_size, completed_packages,
                   blocked_packages, ever_failed>>
    /\ ever_ready' = ever_ready \cup
           SeqToSet(_get_available_packages(work_packages, completed_packages))
    /\ UNCHANGED routed_agent
    /\ UNCHANGED other_vars

----------------------------------------------------------------------------
(* _execute_single_package: the task of one package of the batch *)

\* how an agent's execute_step can end once it has been awaited:
\*   success   - the package was executed and execute_step returned
\*   swallowed - the execution failed inside SmartCodingAgent.execute_work_package,
\*               whose except clause reports the failure and returns
\*   raised    - execute_step raised (outside that try, or from its except clause)
WorkerOutcomes == {"success", "swallowed", "raised"}

\* the tasks of a gather take their first step in the order of the batch
FirstToStart(i) ==
    \E k \in 1..Len(batch) :
        /\ batch[k] = i
        /\ \A j \in 1..(k - 1) : taskpc[batch[j]] # "created"

\* a task that records its package as completed before awaiting the agent
TaskStartMarkingCompleted(i) ==
    /\ pc = "gather"
    /\ taskpc[i] = "created"
    /\ FirstToStart(i)
    /\ IF _find_agent_for_package(agents, work_packages[i]) = "None"
       THEN /\ taskpc' = [taskpc EXCEPT ![i] = "returned"]
            /\ outcome' = [outcome EXCEPT ![i] = "unrouted"]
            /\ ever_failed' = [ever_failed EXCEPT ![i] = TRUE]
            /\ UNCHANGED completed_packages
       ELSE /\ taskpc' = [taskpc EXCEPT ![i] = "awaiting"]
            /\ completed_packages' = Append(completed_packages, IdAt(i))
            /\ UNCHANGED <<outcome, ever_failed>>
    /\ UNCHANGED <<work_packages, agents, batch_processing_size,
                   pc, batch, blocked_packages, dispatch_count, iterations>>
    /\ routed_agent' = [routed_agent EXCEPT
           ![i] = _find_agent_for_package(agents, work_packages[i])]
    /\ UNCHANGED ever_ready
    /\ UNCHANGED other_vars

\* lines 315-326: route the package; return at once when there is no agent,
\* otherwise await agent.execute_step
TaskStartCore(i) ==
    /\ pc = "gather"
    /\ taskpc[i] = "created"
    /\ FirstToStart(i)
    /\ IF _find_agent_for_package(agents, work_packages[i]) = "None"
       THEN /\ taskpc' = [taskpc EXCEPT ![i] = "returned"]
            /\ outcome' = [outcome EXCEPT ![i] = "unrouted"]
            /\ ever_failed' = [ever_failed EXCEPT ![i] = TRUE]
       ELSE /\ taskpc' = [taskpc EXCEPT ![i] = "awaiting"]
            /\ UNCHANGED <<outcome, ever_failed>>
    /\ UNCHANGED <<work_packages, agents, batch_processing_size, completed_packages,
                   pc, batch, blocked_packages, dispatch_count, iterations>>
    /\ routed_agent' = [routed_agent EXCEPT
           ![i] = _find_agent_for_package(agents, work_packages[i])]
    /\ UNCHANGED ever_ready

\* the task's start with the agents' progress tasks left out of the account
TaskStart(i) == TaskStartCore(i) /\ UNCHANGED other_vars

\* a task whose exception cancels the other tasks of the batch
TaskReturnCancellingSiblings(i, o) ==
    /\ pc = "gather"
    /\ taskpc[i] = "awaiting"
    /\ completed_packages' =
           IF o = "raised" THEN completed_packages
           ELSE Append(completed_packages, IdAt(i))
    /\ taskpc' = [j \in Positions |->
                    IF j = i \/ (o = "raised" /\ taskpc[j] \in {"created", "awaiting"})
                    THEN "returned" ELSE taskpc[j]]
    /\ outcome' = [outcome EXCEPT ![i] = o]
    /\ ever_failed' = [ever_failed EXCEPT ![i] = @ \/ o # "success"]
    /\ UNCHANGED <<work_packages, agents, batch_processing_size, pc, batch,
                   blocked_packages, dispatch_count, iterations>>
    /\ UNCHANGED <<ever_ready, routed_agent>>
    /\ UNCHANGED other_vars

\* lines 326-334: execute_step ends; the id is appended unless it raised
TaskReturnCore(i, o) ==
    /\ pc = "gather"
    /\ taskpc[i] = "awaiting"
    /\ completed_packages' =
           IF o = "raised" THEN completed_packages
           ELSE Append(completed_packages, IdAt(i))
    /\ taskpc' = [taskpc EXCEPT ![i] = "returned"]
    /\ outcome' = [outcome EXCEPT ![i] = o]
    /\ ever_failed' = [ever_failed EXCEPT ![i] = @ \/ o # "success"]
    /\ UNCHANGED <<work_packages, agents, batch_processing_size, pc, batch,
                   blocked_packages, dispatch_count, iterations>>
    /\ UNCHANGED <<ever_ready, routed_agent>>

\* the task's end with the agents' progress tasks left out of the account
TaskReturn(i, o) == TaskReturnCore(i, o) /\ UNCHANGED other_vars

\* line 326: the awaited execute_step never returns; nothing bounds the await
TaskHang(i) ==
    /\ pc = "gather"
    /\ taskpc[i] = "awaiting"
    /\ taskpc' = [taskpc EXCEPT ![i] = "hung"]
    /\ UNCHANGED <<work_packages, agents, batch_processing_size, completed_packages,
                   pc, batch, blocked_packages, dispatch_count, outcome, ever_failed,
                   iterations>>
    /\ UNCHANGED <<ever_ready, routed_agent>>
    /\ UNCHANGED other_vars

\* a gather that returns as soon as one task of the batch has returned
GatherReturnOnFirst ==
    /\ pc = "gather"
    /\ \E i \in SeqToSet(batch) : taskpc[i] = "returned"
    /\ pc' = "loop"
    /\ UNCHANGED <<work_packages, agents, batch_processing_size, completed_packages,
                   batch, taskpc, blocked_packages, dispatch_count, outcome,
                   ever_failed, iterations>>
    /\ UNCHANGED <<ever_ready, routed_agent>>
    /\ UNCHANGED other_vars

\* line 292: asyncio.gather returns once every task of the batch has returned
GatherReturn ==
    /\ pc = "gather"
    /\ \A i \in SeqToSet(batch) : taskpc[i] = "returned"
    /\ pc' = "loop"
    /\ taskpc' = [i \in Positions |-> "idle"]
    /\ UNCHANGED <<work_packages, agents, batch_processing_size, completed_packages,
                   batch, blocked_packages, dispatch_count, outcome, ever_failed,
                   iterations>>
    /\ UNCHANGED <<ever_ready, routed_agent>>
    /\ UNCHANGED other_vars

Next ==
    \/ LoopExit
    \/ LoopBlocked
    \/ LoopDispatch
    \/ \E i \in Positions : TaskStart(i)
    \/ \E i \in Positions : \E o \in WorkerOutcomes : TaskReturn(i, o)
    \/ \E i \in Positions : TaskHang(i)
    \/ GatherReturn

Spec == Init /\ [][Next]_vars

\* The event loop runs every task that can take a step, and a worker that is
\* going to return does return; a hung worker (TaskHang) stays hung.
FairSpec == Spec /\ WF_vars(Next)

----------------------------------------------------------------------------
(* Vocabulary of the properties *)

Completed == SeqToSet(completed_packages)

\* the ids reachable from `ids` along at most n more dependency edges
RECURSIVE Ancestors(_, _)
Ancestors(ids, n) ==
    IF n = 0 THEN ids
    ELSE Ancestors(ids \cup UNION {work_packages[j].dependencies :
                                      j \in {k \in Positions : IdAt(k) \in ids}}, n - 1)

\* every id package i depends on, directly or transitively
TransitiveDeps(i) == Ancestors(work_packages[i].dependencies, Len(work_packages))

AcyclicGraph == \A i \in Positions : IdAt(i) \notin TransitiveDeps(i)

ResolvableGraph ==
    \A i \in Positions :
        work_packages[i].dependencies \subseteq {IdAt(j) : j \in Positions}

\* the packages whose task is created or running
Executing == {i \in Positions : taskpc[i] \in {"created", "awaiting", "hung"}}

\* routing finds an agent for every package
AllRoutable ==
    \A i \in Positions : _find_agent_for_package(agents, work_packages[i]) # "None"

\* execute_step returned to the scheduler without raising
ReturnedNormally(i) == outcome[i] \in {"success", "swallowed"}

----------------------------------------------------------------------------
(* C1 *)

\* C1: a package that has been handed to a task (it is in the running batch)
\* has every one of its dependencies in the completed set, from the moment
\* of its dispatch on.
DispatchedAfterDependencies ==
    \A i \in Positions :
        taskpc[i] # "idle" => work_packages[i].dependencies \subseteq Completed

\* a package with a dependency has just been dispatched
DependentDispatched ==
    \E i \in Positions :
        /\ taskpc[i] = "created"
        /\ work_packages[i].dependencies # {}

----------------------------------------------------------------------------
(* C2 *)

\* C2: within one run no package is dispatched more than once (a package
\* whose task failed, or whose routing failed, is never selected again).
DispatchedAtMostOnce ==
    \A i \in Positions : dispatch_count[i] <= 1

----------------------------------------------------------------------------
(* C3 *)

\* C3: on an acyclic graph whose dependencies all resolve and whose packages
\* all have an agent (the batch width is at least 1 in every run of Spec),
\* whatever the workers' outcomes, the loop body is entered at most N times,
\* N the number of packages.
IterationsWithinPackageCount ==
    (AcyclicGraph /\ ResolvableGraph /\ AllRoutable) =>
        iterations <= Len(work_packages)

----------------------------------------------------------------------------
(* C4 *)

\* C4: a package that depends, directly or transitively, on a package whose
\* worker invocation failed is never dispatched, and once the run has ended
\* it is among the packages reported as blocked.
DependentsOfFailedNeverDispatched ==
    \A a \in Positions : \A b \in Positions :
        (AllRoutable /\ ever_failed[a] /\ IdAt(a) \in TransitiveDeps(b)) =>
            /\ dispatch_count[b] = 0
            /\ pc = "done" => IdAt(b) \in SeqToSet(blocked_packages)

----------------------------------------------------------------------------
(* C5 *)

\* C5: a package is in the completed set only if its worker invocation
\* actually succeeded; a package whose execution failed inside the worker is
\* not in the completed set.
CompletedOnlyOnSuccess ==
    \A i \in Positions : IdAt(i) \in Completed => outcome[i] = "success"

----------------------------------------------------------------------------
(* C6 *)

----------------------------------------------------------------------------
(* C7 *)

\* C7: the loop is at its top (where readiness is computed and the next batch
\* is cut) or past its end only when no task is created, running or hung;
\* the only packages with a task are those of the current batch.
BatchBarrier ==
    /\ pc # "gather" => Executing = {}
    /\ \A i \in Positions : taskpc[i] # "idle" => i \in SeqToSet(batch)

\* inside a batch, one task has returned while a sibling is still running
OneReturnedOneRunning ==
    /\ pc = "gather"
    /\ \E i \in SeqToSet(batch) : \E j \in SeqToSet(batch) :
        /\ taskpc[i] = "returned"
        /\ taskpc[j] = "awaiting"

----------------------------------------------------------------------------
(* C8 *)

\* the packages the resolver reports as ready in the current state
ReadyPositions ==
    {i \in Positions :
        /\ IdAt(i) \notin Completed
        /\ work_packages[i].dependencies \subseteq Completed}

\* s holds the k first members of S, in increasing (declaration) order
IsFirstOf(s, k, S) ==
    /\ Len(s) = k
    /\ \A n \in 1..Len(s) : s[n] \in S
    /\ \A n \in 1..(Len(s) - 1) : s[n] < s[n + 1]
    /\ \A r \in S \ SeqToSet(s) : \A n \in 1..Len(s) : s[n] < r

----------------------------------------------------------------------------
(* C9 *)

\* some worker of the running batch has not returned and never will
SomeWorkerHung == \E i \in Positions : taskpc[i] = "hung"

\* C9: a worker that never returns is cut off by a per-package timeout: the
\* package's task ends (as failed) and the batch it belongs to finishes.
HungWorkerTimesOut == SomeWorkerHung ~> (pc # "gather" /\ ~SomeWorkerHung)

----------------------------------------------------------------------------
(* C10 *)

\* C10: a package for which routing finds no agent fails at once and is not
\* routed or dispatched a second time.
UnroutedDispatchedOnce ==
    \A i \in Positions :
        _find_agent_for_package(agents, work_packages[i]) = "None" =>
            dispatch_count[i] <= 1

----------------------------------------------------------------------------
(* C11 *)

\* C11: when the dependency relation of the package list has a cycle, the
\* run is rejected before it starts: no package of the list is dispatched.
CyclicListNeverDispatched ==
    ~AcyclicGraph => \A i \in Positions : dispatch_count[i] = 0

----------------------------------------------------------------------------
(* C12 *)

\* C12: when some dependency id names no package of the list, the list is
\* rejected before any package is dispatched.
UnresolvedListNeverDispatched ==
    ~ResolvableGraph => \A i \in Positions : dispatch_count[i] = 0

----------------------------------------------------------------------------
(* C13 *)

\* a package that is neither completed nor failed remains
SomePackageOutstanding ==
    \E i \in Positions : IdAt(i) \notin Completed /\ ~ever_failed[i]

\* C13: a loop iteration that finds the ready list empty while a package is
\* neither completed nor failed ends the loop without dispatching anything,
\* and the blocked list it logs names exactly the packages that were never
\* ready; none of them was dispatched or has failed.
EmptyReadyEndsLoopAsBlocked ==
    [][(pc = "loop" /\ ReadyPositions = {} /\ SomePackageOutstanding) =>
          /\ pc' = "done"
          /\ dispatch_count' = dispatch_count
          /\ taskpc' = taskpc
          /\ SeqToSet(blocked_packages') = {IdAt(i) : i \in Positions \ ever_ready}
          /\ \A i \in Positions :
                IdAt(i) \in SeqToSet(blocked_packages') =>
                    dispatch_count[i] = 0 /\ ~ever_failed[i]]_vars

\* the loop has ended blocked after at least one batch ran, one task failed
BlockedAfterProgress ==
    /\ pc = "done"
    /\ blocked_packages # <<>>
    /\ \E i \in Positions : dispatch_count[i] > 0 /\ ever_failed[i]


----------------------------------------------------------------------------
(* C14 *)

\* generate_final_report: the report counts the packages and the completed
\* ones; it has no class of failed packages
ReportedCompleted == Completed

ReportedFailed == {}

ReportedBlocked == SeqToSet(blocked_packages)

\* C14: when the run has terminated, every package is in exactly one of the
\* reported classes, and the class tells what happened to it: completed means
\* its last execution succeeded, failed means it ran and did not succeed,
\* blocked means it never became ready.
TerminatedClassesTellOutcome ==
    pc = "done" =>
        \A i \in Positions :
            /\ IdAt(i) \in ReportedCompleted <=> outcome[i] = "success"
            /\ IdAt(i) \in ReportedFailed <=>
                   (dispatch_count[i] > 0 /\ outcome[i] # "success")
            /\ IdAt(i) \in ReportedBlocked <=> i \notin ever_ready


----------------------------------------------------------------------------
(* Runs in which every worker succeeds *)

\* two roots and three dependents: with two tasks per batch the second batch
\* has to leave one ready package out
Fan == << <<"A", {}>>, <<"B", {}>>, <<"C", {"A"}>>, <<"D", {"B"}>>, <<"E", {"B"}>> >>

SuccessPackageLists ==
    PackageLists \cup {[k \in 1..Len(Fan) |-> Tagged(Fan[k][1], Fan[k][2])]}

\* the state after initialize_team, which registers every agent
SuccessInit ==
    /\ work_packages \in SuccessPackageLists
    /\ agents = AllAgents
    /\ batch_processing_size \in BatchSizes
    /\ completed_packages = <<>>
    /\ pc = "loop"
    /\ batch = <<>>
    /\ taskpc = [i \in Positions |-> "idle"]
    /\ blocked_packages = <<>>
    /\ dispatch_count = [i \in Positions |-> 0]
    /\ outcome = [i \in Positions |-> "none"]
    /\ ever_failed = [i \in Positions |-> FALSE]
    /\ iterations = 0
    /\ ever_ready = {}
    /\ routed_agent = [i \in Positions |-> "none"]
    /\ state = "EXECUTING"
    /\ report = <<>>
    /\ project_task = "RUNNING"
    /\ shut_down = FALSE
    /\ OtherInit

\* every awaited execute_step returns after executing its package
SuccessNext ==
    \/ LoopExit
    \/ LoopBlocked
    \/ LoopDispatch
    \/ \E i \in Positions : TaskStart(i)
    \/ \E i \in Positions : TaskReturn(i, "success")
    \/ GatherReturn

\* the event loop keeps running the tasks and the scheduler loop
SuccessSpec == SuccessInit /\ [][SuccessNext]_vars /\ WF_vars(SuccessNext)

\* the dependency graph of the package list
GraphOf(packages) ==
    [k \in 1..Len(packages) |-> <<packages[k].package_id, packages[k].dependencies>>]

----------------------------------------------------------------------------
(* C15 *)

DiamondBatches == << <<1>>, <<2, 3>>, <<4>> >>

DiamondWidthTwo ==
    /\ GraphOf(work_packages) = Diamond
    /\ batch_processing_size = 2
    /\ AllRoutable

DiamondRunsInThreeBatches ==
    DiamondWidthTwo =>
        /\ iterations <= 3
        /\ pc = "gather" => batch = DiamondBatches[iterations]
        /\ pc = "done" => iterations = 3

RunStarts == pc = "loop" /\ iterations = 0

AllCompleted == pc = "done" /\ \A i \in Positions : IdAt(i) \in Completed

\* C15: when the graph is acyclic, every dependency names a package, every
\* package finds an agent and every worker succeeds, the run terminates with
\* every package completed; and the diamond A, B (A), C (A), D (B, C) with
\* two tasks per batch runs in exactly the batches {A}, {B, C}, {D}.
AllSucceedRunsToCompletion ==
    /\ (RunStarts /\ AcyclicGraph /\ ResolvableGraph /\ AllRoutable) ~> AllCompleted
    /\ []DiamondRunsInThreeBatches

\* the diamond has been run to the end
DiamondCompleted ==
    /\ DiamondWidthTwo
    /\ AllCompleted
    /\ iterations = 3
    /\ batch = <<4>>


----------------------------------------------------------------------------
(* C16 *)

\* The positions dispatched in the first k batches, computed from the declared
\* list and the batch size alone: each batch takes, in declaration order, the
\* first batch_processing_size packages whose dependencies are in earlier batches.
RECURSIVE ExpectedDone(_)
ExpectedDone(k) ==
    IF k = 0 THEN {}
    ELSE LET done == ExpectedDone(k - 1)
             ready == {i \in Positions \ done :
                          work_packages[i].dependencies \subseteq {IdAt(j) : j \in done}}
         IN  done \cup {i \in ready :
                          Cardinality({j \in ready : j < i}) < batch_processing_size}

ExpectedMembers(k) == ExpectedDone(k) \ ExpectedDone(k - 1)

\* C16: with workers that always succeed, the members of the k-th batch are
\* determined by the package list (in declaration order) and the batch size:
\* every run over the same list and size dispatches the same k-th batch, in
\* whatever order the workers of the earlier batches finished.
BatchesAreDetermined ==
    pc = "gather" => SeqToSet(batch) = ExpectedMembers(iterations)

\* the first batch of the fan finished in reverse order, and the second batch
\* left out one of the three ready packages
SecondBatchAfterReverseFinish ==
    /\ GraphOf(work_packages) = Fan
    /\ batch_processing_size = 2
    /\ pc = "gather"
    /\ iterations = 2
    /\ completed_packages = <<"B", "A">>
    /\ batch = <<3, 4>>


----------------------------------------------------------------------------
(* C17 *)

BatchIds == {IdAt(i) : i \in SeqToSet(batch)}

\* C17: after a batch, the ids the batch added to the completed set are
\* exactly the ids of the batch members whose own worker succeeded, in
\* whatever order the workers finished.
OutcomesAttributedToOwnPackage ==
    (pc # "gather" /\ batch # <<>>) =>
        BatchIds \cap Completed =
            {IdAt(i) : i \in {j \in SeqToSet(batch) : outcome[j] = "success"}}


----------------------------------------------------------------------------
(* C18 *)

----------------------------------------------------------------------------
(* A second run on the same CodingTeam object *)

\* execute_work_packages is entered again after a run has ended, with the
\* same package list: the locals and the histories of the run start afresh,
\* self.completed_packages, assigned only in __init__, is left as it is.
Rerun ==
    /\ pc = "done"
    /\ pc' = "loop"
    /\ batch' = <<>>
    /\ taskpc' = [i \in Positions |-> "idle"]
    /\ blocked_packages' = <<>>
    /\ dispatch_count' = [i \in Positions |-> 0]
    /\ outcome' = [i \in Positions |-> "none"]
    /\ ever_failed' = [i \in Positions |-> FALSE]
    /\ iterations' = 0
    /\ ever_ready' = {}
    /\ routed_agent' = [i \in Positions |-> "none"]
    /\ UNCHANGED <<work_packages, agents, batch_processing_size, completed_packages>>
    /\ UNCHANGED other_vars

RerunNext ==
    \/ Next
    \/ Rerun

RerunSpec == SuccessInit /\ [][RerunNext]_vars

----------------------------------------------------------------------------
(* C19 *)

\* C19: every run starts from an empty completed set, so a package that is
\* in the completed set when a run ends was dispatched in that run; no
\* package is passed over because an earlier run completed its id.
CompletedWereDispatchedThisRun ==
    pc = "done" =>
        \A i \in Positions : IdAt(i) \in Completed => dispatch_count[i] >= 1


----------------------------------------------------------------------------
(* The router applied to packages with differently written agent tags *)

\* package["agent"] as the planner may write it
AgentTags == {"backend_engineer", "Backend_Engineer", "QA_ENGINEER", "unknown_tag"}

\* one package, with or without a dependency that can be met
RouterPackageLists ==
    { <<Package("A", tag, deps, <<file>>)>> :
        tag \in AgentTags, deps \in {{}, {"missing"}}, file \in {app_py, notes_txt} }

RouterInit ==
    /\ work_packages \in RouterPackageLists
    /\ agents \in Registries
    /\ batch_processing_size \in BatchSizes
    /\ completed_packages = <<>>
    /\ pc = "loop"
    /\ batch = <<>>
    /\ taskpc = [i \in Positions |-> "idle"]
    /\ blocked_packages = <<>>
    /\ dispatch_count = [i \in Positions |-> 0]
    /\ outcome = [i \in Positions |-> "none"]
    /\ ever_failed = [i \in Positions |-> FALSE]
    /\ iterations = 0
    /\ ever_ready = {}
    /\ routed_agent = [i \in Positions |-> "none"]
    /\ state = "EXECUTING"
    /\ report = <<>>
    /\ project_task = "RUNNING"
    /\ shut_down = FALSE
    /\ OtherInit

RouterSpec == RouterInit /\ [][Next]_vars

\* the characters of an agent tag or of a key of agent_mapping
Spelling(name) ==
    CASE name = "backend_engineer" ->
             <<"b","a","c","k","e","n","d","_","e","n","g","i","n","e","e","r">>
      [] name = "frontend_engineer" ->
             <<"f","r","o","n","t","e","n","d","_","e","n","g","i","n","e","e","r">>
      [] name = "fullstack_engineer" ->
             <<"f","u","l","l","s","t","a","c","k","_","e","n","g","i","n","e","e","r">>
      [] name = "ml_engineer" ->
             <<"m","l","_","e","n","g","i","n","e","e","r">>
      [] name = "devops_engineer" ->
             <<"d","e","v","o","p","s","_","e","n","g","i","n","e","e","r">>
      [] name = "qa_engineer" ->
             <<"q","a","_","e","n","g","i","n","e","e","r">>
      [] name = "requirements_analyst" ->
             <<"r","e","q","u","i","r","e","m","e","n","t","s","_","a","n","a","l","y","s","t">>
      [] name = "Backend_Engineer" ->
             <<"B","a","c","k","e","n","d","_","E","n","g","i","n","e","e","r">>
      [] name = "QA_ENGINEER" ->
             <<"Q","A","_","E","N","G","I","N","E","E","R">>
      [] name = "unknown_tag" ->
             <<"u","n","k","n","o","w","n","_","t","a","g">>

----------------------------------------------------------------------------
(* C20 *)

\* C20: when the tag of a package equals, compared case-insensitively, a key
\* of agent_mapping whose agent is registered, the task of the package is
\* routed to that agent, whatever the files of the package are.
TagRoutesIgnoringCase ==
    \A i \in Positions :
        routed_agent[i] # "none" =>
            \A kv \in agent_mapping :
                (/\ kv[2] \in agents
                 /\ lower(Spelling(work_packages[i].agent)) = lower(Spelling(kv[1])))
                    => routed_agent[i] = kv[2]


----------------------------------------------------------------------------
(* The router applied to packages that no tag routes *)

index_html == <<"i","n","d","e","x",".","h","t","m","l">>

model_bin == <<"m","o","d","e","l",".","b","i","n">>

Dockerfile == <<"D","o","c","k","e","r","f","i","l","e">>

test_js == <<"t","e","s","t",".","j","s">>

server_go == <<"s","e","r","v","e","r",".","g","o">>

settings_json == <<"s","e","t","t","i","n","g","s",".","j","s","o","n">>

\* file paths with a hint of every kind, and three with none
HintedFiles == {app_py, server_go, index_html, model_bin, Dockerfile, test_js}

PlainFiles == {notes_txt, settings_json, <<>>}

\* files_to_create: no file, one file, or two files in either order
FileLists ==
    {<<>>} \cup {<<f>> : f \in HintedFiles \cup PlainFiles}
           \cup {<<f, g>> : f, g \in HintedFiles \cup PlainFiles}

\* one package whose tag is empty or names no agent
FallbackPackageLists ==
    { <<Package("A", tag, deps, files)>> :
        tag \in {"", "unknown_tag"}, deps \in {{}, {"missing"}}, files \in FileLists }

FallbackInit ==
    /\ work_packages \in FallbackPackageLists
    /\ agents \in Registries
    /\ batch_processing_size \in BatchSizes
    /\ completed_packages = <<>>
    /\ pc = "loop"
    /\ batch = <<>>
    /\ taskpc = [i \in Positions |-> "idle"]
    /\ blocked_packages = <<>>
    /\ dispatch_count = [i \in Positions |-> 0]
    /\ outcome = [i \in Positions |-> "none"]
    /\ ever_failed = [i \in Positions |-> FALSE]
    /\ iterations = 0
    /\ ever_ready = {}
    /\ routed_agent = [i \in Positions |-> "none"]
    /\ state = "EXECUTING"
    /\ report = <<>>
    /\ project_task = "RUNNING"
    /\ shut_down = FALSE
    /\ OtherInit

FallbackSpec == FallbackInit /\ [][Next]_vars

\* the file types found among the files of a package
FileTypesOf(package) ==
    {_get_file_type(package.files_to_create[k]) : k \in 1..Len(package.files_to_create)}

----------------------------------------------------------------------------
(* C21 *)

\* the agent of the highest-ranking category present in a set of file types
ByPrecedence(registry, types) ==
    IF types \cap {"python", "api"} # {} THEN agents_get(registry, "backend_specialist")
    ELSE IF types \cap {"html", "css", "javascript"} # {}
        THEN agents_get(registry, "frontend_specialist")
    ELSE IF types \cap {"ml", "data"} # {} THEN agents_get(registry, "ml_specialist")
    ELSE IF types \cap {"docker", "deploy"} # {}
        THEN agents_get(registry, "devops_specialist")
    ELSE IF types \cap {"test"} # {} THEN agents_get(registry, "qa_specialist")
    ELSE agents_get(registry, "fullstack_specialist")

----------------------------------------------------------------------------
(* C22 *)

\* C22: a package whose tag routes to no registered agent and whose files
\* (if any) have no file type that selects an agent is routed to
\* fullstack_specialist whenever that agent is registered.
UnhintedGoesToDefault ==
    \A i \in Positions :
        (/\ routed_agent[i] # "none"
         /\ mapped_name(work_packages[i].agent) \notin agents
         /\ FileTypesOf(work_packages[i]) \subseteq {"generic", "unknown", "config"}
         /\ "fullstack_specialist" \in agents)
            => routed_agent[i] = "fullstack_specialist"

\* a package without files, and one with plain files, sent to the default agent
DefaultChosen ==
    /\ work_packages[1].agent = "unknown_tag"
    /\ work_packages[1].files_to_create \in {<<>>, <<notes_txt, settings_json>>}
    /\ routed_agent[1] = "fullstack_specialist"
    /\ taskpc[1] = "awaiting"


----------------------------------------------------------------------------
(* C23 *)

\* the packages never handed to a task so far
Pending == {i \in Positions : dispatch_count[i] = 0}

\* C23: each time the loop computes the available packages (every package
\* having an agent), the result lists, in declaration order, exactly the
\* packages never dispatched so far whose dependencies are all completed.
ResolverReturnsPendingReady ==
    (pc = "loop" /\ AllRoutable) =>
        LET available == _get_available_packages(work_packages, completed_packages)
        IN  /\ SeqToSet(available) =
                   {i \in Pending : work_packages[i].dependencies \subseteq Completed}
            /\ \A k, l \in 1..Len(available) : k < l => available[k] < available[l]


----------------------------------------------------------------------------
(* ProjectPlan and ProjectStep (src/project/project_plan.py) *)

\* add_step is called at most this many times
MaxSteps == 3

\* the state of the CodingTeam after __init__, before any run
TeamIdle ==
    /\ work_packages = <<>>
    /\ agents = {}
    /\ batch_processing_size = 3
    /\ completed_packages = <<>>
    /\ pc = "idle"
    /\ batch = <<>>
    /\ taskpc = <<>>
    /\ blocked_packages = <<>>
    /\ dispatch_count = <<>>
    /\ outcome = <<>>
    /\ ever_failed = <<>>
    /\ iterations = 0
    /\ ever_ready = {}
    /\ routed_agent = <<>>
    /\ state = "INITIALIZING"
    /\ report = <<>>
    /\ project_task = "absent"
    /\ shut_down = FALSE

\* ProjectStep(step_id, ..., dependencies=...): status defaults to PENDING
ProjectStep(step_id, dependencies) ==
    [step_id |-> step_id, dependencies |-> dependencies, status |-> "PENDING"]

StepIds == {"STEP_01", "STEP_02"}

\* dependency lists: none, a step of the plan, and one that also names a
\* step no plan contains
DependencyLists == {<<>>, <<"STEP_01">>, <<"STEP_01", "STEP_00">>}

NewSteps == {ProjectStep(id, deps) : id \in StepIds, deps \in DependencyLists}

\* the call raised AttributeError ('NoneType' object has no attribute 'status')
AttributeError == -1

\* get_step_by_id: the first step with this id, scanning from position k
RECURSIVE StepFrom(_, _, _)
StepFrom(plan_steps, step_id, k) ==
    IF k > Len(plan_steps) THEN None
    ELSE IF plan_steps[k].step_id = step_id THEN k
    ELSE StepFrom(plan_steps, step_id, k + 1)

\* a lookup that returns the last step with this id
RECURSIVE LastStepFrom(_, _, _)
LastStepFrom(plan_steps, step_id, k) ==
    IF k = 0 THEN None
    ELSE IF plan_steps[k].step_id = step_id THEN k
    ELSE LastStepFrom(plan_steps, step_id, k - 1)

get_last_step_by_id(plan_steps, step_id) ==
    LastStepFrom(plan_steps, step_id, Len(plan_steps))

get_step_by_id(plan_steps, step_id) == StepFrom(plan_steps, step_id, 1)

\* all(self.get_step_by_id(dep_id).status == COMPLETED for dep_id in dependencies),
\* from the k-th dependency on: "met", "unmet", or "error" when a lookup gave None
RECURSIVE dependencies_met(_, _, _)
dependencies_met(plan_steps, dependencies, k) ==
    IF k > Len(dependencies) THEN "met"
    ELSE LET dep == get_step_by_id(plan_steps, dependencies[k])
         IN  IF dep = None THEN "error"
             ELSE IF plan_steps[dep].status # "COMPLETED" THEN "unmet"
             ELSE dependencies_met(plan_steps, dependencies, k + 1)

\* get_next_step, scanning from position k
RECURSIVE NextStepFrom(_, _)
NextStepFrom(plan_steps, k) ==
    IF k > Len(plan_steps) THEN None
    ELSE IF plan_steps[k].status # "PENDING" THEN NextStepFrom(plan_steps, k + 1)
    ELSE LET met == dependencies_met(plan_steps, plan_steps[k].dependencies, 1)
         IN  IF met = "error" THEN AttributeError
             ELSE IF met = "met" THEN k
             ELSE NextStepFrom(plan_steps, k + 1)

get_next_step(plan_steps) == NextStepFrom(plan_steps, 1)

\* ProjectPlan.add_step
add_step(step) ==
    /\ add_calls < MaxSteps
    /\ steps' = Append(steps, step)
    /\ add_calls' = add_calls + 1
    /\ UNCHANGED <<team_vars, agent_vars, config_vars, run_vars, progress_vars, tool_vars>>

\* ProjectStep.start_step, complete_step, block_step, fail_step on the k-th step
SetStatus(k, status) ==
    /\ steps' = [steps EXCEPT ![k].status = status]
    /\ UNCHANGED <<add_calls, team_vars, agent_vars, config_vars, run_vars,
                   progress_vars, tool_vars>>

start_step(k) == SetStatus(k, "IN_PROGRESS")

complete_step(k) == SetStatus(k, "COMPLETED")

block_step(k) == SetStatus(k, "BLOCKED")

fail_step(k) == SetStatus(k, "FAILED")

PlanSpecInit == TeamIdle /\ OtherInit

PlanNext ==
    \/ \E step \in NewSteps : add_step(step)
    \/ \E k \in 1..Len(steps) : start_step(k)
    \/ \E k \in 1..Len(steps) : complete_step(k)
    \/ \E k \in 1..Len(steps) : block_step(k)
    \/ \E k \in 1..Len(steps) : fail_step(k)

PlanSpec == PlanSpecInit /\ [][PlanNext]_vars

----------------------------------------------------------------------------
(* C24 *)

\* the steps that are PENDING and whose dependencies are all steps of the
\* plan with status COMPLETED
Qualifying ==
    {k \in 1..Len(steps) :
        /\ steps[k].status = "PENDING"
        /\ \A d \in SeqToSet(steps[k].dependencies) :
              /\ get_step_by_id(steps, d) # None
              /\ steps[get_step_by_id(steps, d)].status = "COMPLETED"}

\* C24: get_next_step returns the first step in plan order that is PENDING
\* and has every dependency step COMPLETED, and None when there is no such step.
NextStepIsFirstQualifying ==
    get_next_step(steps) =
        IF Qualifying = {} THEN None
        ELSE CHOOSE k \in Qualifying : \A l \in Qualifying : k <= l


----------------------------------------------------------------------------
(* C25 *)

\* the positions of the steps added with this id
AddedWith(step_id) == {k \in 1..Len(steps) : steps[k].step_id = step_id}

\* C25: the plan holds one step per add_step call, and get_step_by_id gives
\* the step added with the id (the first one, if several were), None when
\* no step was added with it.
StepsAreTheAddedSteps ==
    /\ Len(steps) = add_calls
    /\ \A id \in StepIds \cup {"STEP_00"} :
          get_step_by_id(steps, id) =
              IF AddedWith(id) = {} THEN None
              ELSE CHOOSE k \in AddedWith(id) : \A l \in AddedWith(id) : k <= l

\* three steps were added, two of them with the same id, and the lookup of
\* the second id finds the step added last
ThreeStepsAdded ==
    /\ add_calls = 3
    /\ steps[1].step_id = "STEP_01"
    /\ steps[2].step_id = "STEP_01"
    /\ steps[3].step_id = "STEP_02"
    /\ get_step_by_id(steps, "STEP_02") = 3
    /\ get_step_by_id(steps, "STEP_01") = 1


----------------------------------------------------------------------------
(* BaseAgent (src/agents/base_agent.py) *)

\* send_message is called at most this many times
MaxMessages == 3

MessageTags == {"ASK_CLARIFICATION", "PROGRESS", "BLOCKER", "DEFECT", "STEP_START",
                "STEP_SUCCESS", "NEXT_STEP", "PROJECT_COMPLETE", "AGENT_EXIT"}

\* titles and contents are sequences of string fragments, so that an
\* f-string is the concatenation of its parts
Titles == {<<"Test">>, <<"Progress Update">>}

Contents == {<<"Test content">>}

AgentMessage(r, tag, title, content) ==
    [role |-> r, tag |-> tag, title |-> title, content |-> content]

\* a history that takes the new message at its head
prepended(history, message) == <<message>> \o history

\* self.messages.append(message)
appended(history, message) == Append(history, message)

\* lines 74-92: build the message, append it, return it
Send(tag, title, content) ==
    /\ Len(messages) < MaxMessages
    /\ messages' = appended(messages, AgentMessage(role, tag, title, content))
    /\ returned' = <<AgentMessage(role, tag, title, content)>>
    /\ sent' = Append(sent, [tag |-> tag, title |-> title, content |-> content])

\* a send_message that marks the agent active again
send_message_reactivating(tag, title, content) ==
    /\ Send(tag, title, content)
    /\ is_active' = TRUE
    /\ UNCHANGED <<role, team_vars, plan_vars, config_vars, run_vars, progress_vars, tool_vars>>

\* BaseAgent.send_message (also reached through ask_clarification,
\* report_progress, report_blocker and report_defect)
send_message(tag, title, content) ==
    /\ Send(tag, title, content)
    /\ UNCHANGED <<role, is_active, team_vars, plan_vars, config_vars, run_vars,
                   progress_vars, tool_vars>>

\* BaseAgent.terminate
terminate ==
    /\ is_active' = FALSE
    /\ Send("AGENT_EXIT", <<role, " Terminating">>,
            <<role, " has completed all responsibilities and is terminating.">>)
    /\ UNCHANGED <<role, team_vars, plan_vars, config_vars, run_vars, progress_vars, tool_vars>>

AgentSpecInit ==
    TeamIdle /\ PlanInit /\ AgentInit /\ ConfigInit /\ ProgressInit /\ ToolInit

AgentNext ==
    \/ \E tag \in MessageTags : \E title \in Titles : \E content \in Contents :
           send_message(tag, title, content)
    \/ terminate

AgentSpec == AgentSpecInit /\ [][AgentNext]_vars

----------------------------------------------------------------------------
(* C26 *)

\* C26: the history of an agent is the list of the messages it has sent, in
\* the order of the calls: the k-th message carries the role of the agent
\* and the tag, title and content given to the k-th send_message call, the
\* latest call returned the last message, and a new agent has an empty
\* history and is active.
HistoryIsTheMessagesSent ==
    /\ Len(messages) = Len(sent)
    /\ \A k \in 1..Len(messages) :
          messages[k] = AgentMessage(role, sent[k].tag, sent[k].title, sent[k].content)
    /\ sent # <<>> => returned = <<messages[Len(messages)]>>
    /\ sent = <<>> => (messages = <<>> /\ is_active)

\* three messages sent with different tags
ThreeMessagesSent ==
    /\ Len(messages) = 3
    /\ messages[1].tag = "PROGRESS"
    /\ messages[2].tag = "BLOCKER"
    /\ messages[3].tag = "STEP_SUCCESS"
    /\ returned = <<messages[3]>>

----------------------------------------------------------------------------
(* C27 *)

\* C27: a step that deactivates the agent returns and records a message
\* tagged AGENT_EXIT, an inactive agent has recorded such a message, and no
\* step makes an inactive agent active again.
TerminateIsFinal ==
    /\ [][/\ ~is_active => ~is_active'
          /\ (is_active /\ ~is_active') =>
                 /\ returned'[1].tag = "AGENT_EXIT"
                 /\ messages' = Append(messages, returned'[1])]_vars
    /\ [](~is_active => \E k \in 1..Len(messages) : messages[k].tag = "AGENT_EXIT")

\* a message sent by an agent that has terminated
SentAfterTerminate ==
    /\ ~is_active
    /\ Len(messages) = 2
    /\ messages[1].tag = "AGENT_EXIT"
    /\ messages[2].tag = "PROGRESS"

----------------------------------------------------------------------------
(* CodingTeamConfig *)

\* a dict as its set of <<key, value>> items
ClaudeConfigs ==
    {{}, {<<"test", "config">>}, {<<"model", "claude">>},
     {<<"test", "config">>, <<"model", "claude">>}}

OutputDirectories == {"output", "test_output", "out", "build", "generated_projects"}

LogLevels == {"DEBUG", "INFO", "WARNING", "ERROR", "CRITICAL"}

\* the dataclass constructor called with its first three fields only: the
\* other fields take the defaults of lines 38-46
CodingTeamConfig(claude_config, output_directory, log_level) ==
    [claude_config |-> claude_config,
     output_directory |-> output_directory,
     log_level |-> log_level,
     max_escalation_attempts |-> 3,
     step_timeout_minutes |-> 10,
     enable_rich_ui |-> TRUE,
     enable_caching |-> TRUE,
     cache_write_cycle_minutes |-> 5,
     enable_progress_tracking |-> TRUE,
     enable_code_analysis |-> TRUE,
     batch_processing_size |-> 3,
     enable_streaming |-> TRUE]

\* config = CodingTeamConfig(claude_config=..., output_directory=...,
\* log_level=...), kept with the arguments it was called with
create_config(claude_config, output_directory, log_level) ==
    /\ config' = << [given |-> <<claude_config, output_directory, log_level>>,
                     made |-> CodingTeamConfig(claude_config, output_directory,
                                               log_level)] >>
    /\ UNCHANGED <<team_vars, plan_vars, agent_vars, run_vars, progress_vars, tool_vars>>

ConfigSpecInit == TeamIdle /\ OtherInit

ConfigNext ==
    \E claude_config \in ClaudeConfigs : \E output_directory \in OutputDirectories :
        \E log_level \in LogLevels :
            create_config(claude_config, output_directory, log_level)

ConfigSpec == ConfigSpecInit /\ [][ConfigNext]_vars

----------------------------------------------------------------------------
(* C28 *)

\* C28: a CodingTeamConfig created with only claude_config, output_directory
\* and log_level keeps those three values and has max_escalation_attempts = 3
\* and step_timeout_minutes = 30.
ConfigKeepsArgumentsAndDefaults ==
    \A k \in 1..Len(config) :
        /\ config[k].made.claude_config = config[k].given[1]
        /\ config[k].made.output_directory = config[k].given[2]
        /\ config[k].made.log_level = config[k].given[3]
        /\ config[k].made.max_escalation_attempts = 3
        /\ config[k].made.step_timeout_minutes = 30

----------------------------------------------------------------------------
(* solve_problem after execute_work_packages has returned *)

\* hasattr(self, 'project_task_id') (lines 210, 240): project_task_id is a
\* local of solve_problem (line 181) and no statement assigns the attribute
has_project_task_id == FALSE

\* generate_final_report, lines 427-469: the fields of the report that
\* describe the run, read from the team when the report is built
generate_final_report ==
    [final_state |-> state,
     total |-> Len(work_packages),
     completed |-> Len(completed_packages)]

\* lines 196-205 and 214: report progress, generate the final report,
\* complete the project task, set the team state to COMPLETED, return the
\* report; the finally clause shuts the team down
ReportAndComplete ==
    /\ pc = "done"
    /\ state = "EXECUTING"
    /\ report' = <<generate_final_report>>
    /\ project_task' = "COMPLETED"
    /\ state' = "COMPLETED"
    /\ shut_down' = TRUE
    /\ pc' = "returned"
    /\ UNCHANGED <<work_packages, agents, batch_processing_size, completed_packages,
                   batch, taskpc, blocked_packages, dispatch_count, outcome,
                   ever_failed, iterations, ever_ready, routed_agent>>
    /\ UNCHANGED <<plan_vars, agent_vars, config_vars, progress_vars, tool_vars>>

\* lines 207-214: a statement of lines 196-202 raised (the progress tools or
\* generate_final_report); the state becomes FAILED, the project task is
\* failed if the team has the attribute project_task_id, the exception is
\* re-raised and the finally clause shuts the team down
ReportRaises ==
    /\ pc = "done"
    /\ state = "EXECUTING"
    /\ state' = "FAILED"
    /\ project_task' = IF has_project_task_id THEN "FAILED" ELSE project_task
    /\ shut_down' = TRUE
    /\ pc' = "raised"
    /\ UNCHANGED report
    /\ UNCHANGED <<work_packages, agents, batch_processing_size, completed_packages,
                   batch, taskpc, blocked_packages, dispatch_count, outcome,
                   ever_failed, iterations, ever_ready, routed_agent>>
    /\ UNCHANGED <<plan_vars, agent_vars, config_vars, progress_vars, tool_vars>>

SolveNext ==
    \/ Next
    \/ ReportAndComplete
    \/ ReportRaises

\* solve_problem from the call of execute_work_packages (line 195) to its end
SolveSpec == Init /\ [][SolveNext]_vars

----------------------------------------------------------------------------
(* C29 *)

\* C29: when solve_problem has ended in team state COMPLETED and returned a
\* report, every work package is in the completed set.
CompletedMeansAllPackagesCompleted ==
    (state = "COMPLETED" /\ pc = "returned") =>
        \A i \in Positions : IdAt(i) \in Completed

----------------------------------------------------------------------------
(* The progress tasks of the packages of a batch *)

\* A progress task is identified by the position of the package it was created
\* for: its id is f"{name}_WP: {title}_{timestamp}" (base_agent.py line 125),
\* different for packages with different titles.

\* signal_step_start, lines 125-133: the agent's current_task_id becomes the id
\* of the new task, which is created (PENDING) and started (RUNNING)
signal_step_start(agent, task_id) ==
    /\ current_task_id' = [current_task_id EXCEPT ![agent] = task_id]
    /\ tasks' = [tasks EXCEPT ![task_id] = "RUNNING"]

\* signal_step_success, lines 142-143: complete the task current_task_id names
signal_step_success(agent) ==
    /\ tasks' = IF current_task_id[agent] # None
                THEN [tasks EXCEPT ![current_task_id[agent]] = "COMPLETED"]
                ELSE tasks
    /\ UNCHANGED current_task_id

\* fail_current_step, lines 151-153: fail the task current_task_id names
fail_current_step(agent) ==
    /\ tasks' = IF current_task_id[agent] # None
                THEN [tasks EXCEPT ![current_task_id[agent]] = "FAILED"]
                ELSE tasks
    /\ UNCHANGED current_task_id

\* _execute_single_package up to the first suspension inside
\* execute_work_package (smart_coding_agent.py line 74, then the awaited
\* generate_file_content of line 86)
ProgressTaskStart(i) ==
    /\ TaskStartCore(i)
    /\ IF _find_agent_for_package(agents, work_packages[i]) = "None"
       THEN UNCHANGED progress_vars
       ELSE signal_step_start(_find_agent_for_package(agents, work_packages[i]), i)
    /\ UNCHANGED <<plan_vars, agent_vars, config_vars, run_vars, tool_vars>>

\* execute_work_package resumes and ends: lines 98-101 when the files were
\* generated, lines 103-105 when generating them raised
ProgressTaskReturn(i, o) ==
    /\ TaskReturnCore(i, o)
    /\ IF o = "success"
       THEN signal_step_success(routed_agent[i])
       ELSE fail_current_step(routed_agent[i])
    /\ UNCHANGED <<plan_vars, agent_vars, config_vars, run_vars, tool_vars>>

ProgressNext ==
    \/ LoopExit
    \/ LoopBlocked
    \/ LoopDispatch
    \/ \E i \in Positions : ProgressTaskStart(i)
    \/ \E i \in Positions : \E o \in {"success", "swallowed"} : ProgressTaskReturn(i, o)
    \/ GatherReturn

\* execute_work_packages with every agent registered and execute_work_package
\* ending through its try or its except clause
ProgressSpec == SuccessInit /\ [][ProgressNext]_vars

----------------------------------------------------------------------------
(* C30 *)

\* the status the package's own execution gives its progress task
OwnStatus(i) == IF outcome[i] = "success" THEN "COMPLETED" ELSE "FAILED"

\* C30: the progress task created for a package is ended by that package's own
\* execution: once the package's execute_step has returned, its task has the
\* status that execution gave it, and between batches no task is RUNNING.
ProgressTaskEndedByOwnPackage ==
    /\ \A i \in Positions : ReturnedNormally(i) => tasks[i] = OwnStatus(i)
    /\ pc \in {"loop", "done"} => \A i \in Positions : tasks[i] # "RUNNING"

----------------------------------------------------------------------------
(* The batch loop for every integer batch_processing_size *)

\* CodingTeamConfig.batch_processing_size is an int the caller chooses
\* (main.py line 60 passes the command-line value on unchecked)
AnyBatchSizes == -2..3

\* the state after initialize_team and analyze_problem_systematically
WidthInit ==
    /\ work_packages \in SuccessPackageLists
    /\ agents = AllAgents
    /\ batch_processing_size \in AnyBatchSizes
    /\ completed_packages = <<>>
    /\ pc = "loop"
    /\ batch = <<>>
    /\ taskpc = [i \in Positions |-> "idle"]
    /\ blocked_packages = <<>>
    /\ dispatch_count = [i \in Positions |-> 0]
    /\ outcome = [i \in Positions |-> "none"]
    /\ ever_failed = [i \in Positions |-> FALSE]
    /\ iterations = 0
    /\ ever_ready = {}
    /\ routed_agent = [i \in Positions |-> "none"]
    /\ state = "EXECUTING"
    /\ report = <<>>
    /\ project_task = "RUNNING"
    /\ shut_down = FALSE
    /\ OtherInit

\* workers that always succeed, scheduled by a running event loop
WidthSpec == WidthInit /\ [][SuccessNext]_vars /\ WF_vars(SuccessNext)

----------------------------------------------------------------------------
(* C31 *)

\* C31: whatever the integer batch_processing_size, every iteration that
\* finds a non-empty ready list dispatches at least one package, and a run
\* whose workers always succeed ends.
EveryIterationDispatches ==
    /\ [](pc = "gather" => batch # <<>>)
    /\ <>(pc = "done")

----------------------------------------------------------------------------
(* C32 *)

\* the package ids of the run are pairwise distinct
DistinctIds ==
    \A i \in Positions : \A j \in Positions : IdAt(i) = IdAt(j) => i = j

\* C32: over packages with pairwise distinct ids, the completed list holds no
\* id twice, holds only ids of packages of the run and is never longer than
\* the package list, so the loop condition is false exactly when every
\* package is completed.
CompletedListIsASetOfPackages ==
    DistinctIds =>
        /\ \A j \in 1..Len(completed_packages) : \A k \in 1..Len(completed_packages) :
               completed_packages[j] = completed_packages[k] => j = k
        /\ Completed \subseteq {IdAt(i) : i \in Positions}
        /\ Len(completed_packages) <= Len(work_packages)
        /\ ~(Len(completed_packages) < Len(work_packages)) <=>
               \A i \in Positions : IdAt(i) \in Completed

\* a run that left the loop with every package completed, one of them on
\* its second dispatch
LoopLeftAfterRetry ==
    /\ DistinctIds
    /\ pc = "done"
    /\ Len(completed_packages) = Len(work_packages)
    /\ Len(work_packages) = 4
    /\ \E i \in Positions : dispatch_count[i] >= 2

----------------------------------------------------------------------------
(* C33 *)

\* C33: when solve_problem has returned normally, the final_state recorded
\* in the report is the team state the run ended in, COMPLETED.
ReportedStateIsFinalState ==
    pc = "returned" =>
        /\ report[1].final_state = state
        /\ report[1].final_state = "COMPLETED"

----------------------------------------------------------------------------
(* C34 *)

\* C34: when solve_problem has failed with an exception after the project
\* task was created and started, that task is FAILED, not RUNNING, the
\* team state is FAILED and shutdown_team has run.
FailedRunFailsProjectTask ==
    pc = "raised" =>
        /\ project_task = "FAILED"
        /\ state = "FAILED"
        /\ shut_down

----------------------------------------------------------------------------
(* ProgressTracker and TaskProgress *)

MaxFired == 2

TaskIds == {"task_1", "task_2"}

TotalWorks == {50, 100}

\* progress values below, at and above the total_work of a task
Progresses == {0, 50, 100, 150}

\* d[k] = v of a Python dict
DictSet(d, k, v) == [x \in (DOMAIN d) \cup {k} |-> IF x = k THEN v ELSE d[x]]

\* TaskProgress(task_id, name, description, total_work=...): status PENDING,
\* progress 0.0
TaskProgress(total_work) ==
    [status |-> "PENDING", progress |-> 0, total_work |-> total_work]

\* TaskProgress.complete, lines 79-84
complete(task) == [task EXCEPT !.status = "COMPLETED", !.progress = task.total_work]

\* TaskProgress.update_progress, lines 66-73
update_progress(task, progress) ==
    LET updated == [task EXCEPT !.progress = Min(progress, task.total_work)]
    IN  IF updated.progress >= updated.total_work /\ updated.status = "RUNNING"
        THEN complete(updated)
        ELSE updated

\* _trigger_callbacks("task_completed", task), lines 144-149, counted per task
fire_task_completed(task_id) ==
    completed_fired' = [completed_fired EXCEPT ![task_id] = Saturate(@, MaxFired)]

outside_tracker ==
    <<team_vars, plan_vars, agent_vars, config_vars, run_vars, progress_vars,
      cache_vars, file_vars>>

\* ProgressTracker.create_task, lines 151-169: a new TaskProgress replaces
\* whatever the id named before
create_task(task_id, total_work) ==
    /\ task_progress' = DictSet(task_progress, task_id, TaskProgress(total_work))
    /\ completed_fired' = DictSet(completed_fired, task_id, 0)
    /\ UNCHANGED outside_tracker

\* a method that changes only the status of a task it knows, and returns
\* False for an unknown id
SetTaskStatus(task_id, status) ==
    /\ task_progress' =
           IF task_id \in DOMAIN task_progress
           THEN [task_progress EXCEPT ![task_id].status = status]
           ELSE task_progress
    /\ UNCHANGED completed_fired
    /\ UNCHANGED outside_tracker

\* ProgressTracker.start_task, lines 171-179
start_task(task_id) == SetTaskStatus(task_id, "RUNNING")

\* ProgressTracker.update_task, lines 181-195
update_task(task_id, progress) ==
    /\ IF task_id \notin DOMAIN task_progress
       THEN UNCHANGED tracker_vars
       ELSE LET task == task_progress[task_id]
                old_progress == task.progress
                updated == update_progress(task, progress)
            IN  /\ task_progress' = [task_progress EXCEPT ![task_id] = updated]
                /\ IF updated.status = "COMPLETED" /\ old_progress < updated.total_work
                   THEN fire_task_completed(task_id)
                   ELSE UNCHANGED completed_fired
    /\ UNCHANGED outside_tracker

\* ProgressTracker.complete_task, lines 197-205
complete_task(task_id) ==
    /\ IF task_id \notin DOMAIN task_progress
       THEN UNCHANGED tracker_vars
       ELSE /\ task_progress' =
                   [task_progress EXCEPT ![task_id] = complete(task_progress[task_id])]
            /\ fire_task_completed(task_id)
    /\ UNCHANGED outside_tracker

\* ProgressTracker.fail_task, lines 207-215
fail_task(task_id) == SetTaskStatus(task_id, "FAILED")

\* ProgressTracker.cancel_task, lines 217-224
cancel_task(task_id) == SetTaskStatus(task_id, "CANCELLED")

TrackerSpecInit == TeamIdle /\ OtherInit

TrackerNext ==
    \E task_id \in TaskIds :
        \/ \E total_work \in TotalWorks : create_task(task_id, total_work)
        \/ start_task(task_id)
        \/ \E progress \in Progresses : update_task(task_id, progress)
        \/ complete_task(task_id)
        \/ fail_task(task_id)
        \/ cancel_task(task_id)

TrackerSpec == TrackerSpecInit /\ [][TrackerNext]_vars

----------------------------------------------------------------------------
(* C35 *)

\* C35: every task has progress <= total_work, every COMPLETED task has
\* progress = total_work, and the task_completed callback has fired at most
\* once for each task.
TaskProgressWithinTotal ==
    \A task_id \in DOMAIN task_progress :
        /\ task_progress[task_id].progress <= task_progress[task_id].total_work
        /\ task_progress[task_id].status = "COMPLETED" =>
               task_progress[task_id].progress = task_progress[task_id].total_work
        /\ completed_fired[task_id] <= 1

----------------------------------------------------------------------------
(* CacheManager *)

\* Keys and namespaces are strings, written as sequences of characters, so
\* that f"{namespace}:{key}" and startswith work on them as in the code.

MaxSets == 3

ns_a == <<"a">>

ns_a_b == <<"a", ":", "b">>

key_k == <<"k">>

key_b_k == <<"b", ":", "k">>

CacheNamespaces == {ns_a, ns_a_b}

CacheKeys == {key_k, key_b_k}

CacheValues == {"v", "ww"}

\* ttl_seconds: None or a number of seconds
TTLs == {"None", "300"}

\* a memory limit of a few bytes, in the place of max_memory_mb * 1024 * 1024
SmallLimits == {8}

\* len(self._serialize_value(value)), lines 102-103 and 326-336: json.dumps of
\* a str is the str in double quotes
size_of(value) ==
    CASE value = "" -> 2
      [] value = "v" -> 3
      [] value = "x" -> 3
      [] value = "y" -> 3
      [] value = "ww" -> 4

\* f"{namespace}:{key}"
full_key_of(namespace, key) == namespace \o <<":">> \o key

\* str.startswith
startswith(s, prefix) ==
    /\ Len(prefix) <= Len(s)
    /\ SubSeq(s, 1, Len(prefix)) = prefix

\* dict.pop(k, None) / del d[k]
DictDel(d, k) == [x \in (DOMAIN d) \ {k} |-> d[x]]

\* the list without the element x
Without(seq, x) == SelectSeq(seq, LAMBDA y : y # x)

\* the entry of the defaultdict namespace_stats (lines 51-56), without the
\* hit and miss counters
NoStats == [entry_count |-> 0, total_size |-> 0]

StatsOf(stats, namespace) ==
    IF namespace \in DOMAIN stats THEN stats[namespace] ELSE NoStats

\* namespace_stats[namespace]["entry_count"] += count and
\* namespace_stats[namespace]["total_size"] += size
StatsAdd(stats, namespace, count, size) ==
    DictSet(stats, namespace,
            [entry_count |-> StatsOf(stats, namespace).entry_count + count,
             total_size |-> StatsOf(stats, namespace).total_size + size])

\* the three fields of the CacheManager that its methods change
TheCache ==
    [memory_cache |-> memory_cache,
     namespace_stats |-> namespace_stats,
     access_order |-> access_order]

CacheBecomes(c) ==
    /\ memory_cache' = c.memory_cache
    /\ namespace_stats' = c.namespace_stats
    /\ access_order' = c.access_order

\* CacheEntry.is_expired
is_expired(entry) == entry.has_ttl /\ entry.expired

\* sum(entry.size_bytes for entry in self.memory_cache.values())
RECURSIVE SizeUpTo(_, _, _)
SizeUpTo(cache, order, n) ==
    IF n = 0 THEN 0 ELSE SizeUpTo(cache, order, n - 1) + cache[order[n]].size_bytes

TotalSize(c) == SizeUpTo(c.memory_cache, c.access_order, Len(c.access_order))

\* _evict_lru_entries, lines 297-321: the loop over the entries sorted by
\* last_accessed, from the k-th on; target_size is max_memory_bytes * 0.8
RECURSIVE EvictFrom(_, _, _, _, _)
EvictFrom(cache, stats, sorted_entries, k, current_size) ==
    IF k > Len(sorted_entries) \/ current_size * 10 <= max_memory_bytes * 8
    THEN [memory_cache |-> cache,
          namespace_stats |-> stats,
          access_order |-> SelectSeq(sorted_entries, LAMBDA fk : fk \in DOMAIN cache)]
    ELSE LET entry == cache[sorted_entries[k]]
         IN  EvictFrom(DictDel(cache, sorted_entries[k]),
                       StatsAdd(stats, entry.namespace, -1, 0 - entry.size_bytes),
                       sorted_entries, k + 1, current_size - entry.size_bytes)

\* _check_memory_limits, lines 291-295
_check_memory_limits(c) ==
    IF TotalSize(c) > max_memory_bytes
    THEN EvictFrom(c.memory_cache, c.namespace_stats, c.access_order, 1, TotalSize(c))
    ELSE c

\* CacheManager.set, lines 95-120
after_set(c, key, value, namespace, ttl_seconds) ==
    LET full_key == full_key_of(namespace, key)
        entry == [value |-> value, namespace |-> namespace,
                  size_bytes |-> size_of(value),
                  has_ttl |-> ttl_seconds # "None", expired |-> FALSE]
    IN  _check_memory_limits(
            [memory_cache |-> DictSet(c.memory_cache, full_key, entry),
             namespace_stats |-> StatsAdd(c.namespace_stats, namespace, 1,
                                          size_of(value)),
             access_order |-> Append(Without(c.access_order, full_key), full_key)])

\* CacheManager.delete, lines 146-155
after_delete(c, key, namespace) ==
    LET full_key == full_key_of(namespace, key)
    IN  IF full_key \in DOMAIN c.memory_cache
        THEN [memory_cache |-> DictDel(c.memory_cache, full_key),
              namespace_stats |->
                  StatsAdd(c.namespace_stats, namespace, -1,
                           0 - c.memory_cache[full_key].size_bytes),
              access_order |-> Without(c.access_order, full_key)]
        ELSE c

\* the value CacheManager.get returns, lines 122-144
get_returns(c, key, namespace) ==
    LET full_key == full_key_of(namespace, key)
    IN  IF full_key \notin DOMAIN c.memory_cache THEN "None"
        ELSE IF is_expired(c.memory_cache[full_key]) THEN "None"
        ELSE c.memory_cache[full_key].value

\* what CacheManager.get does to the cache: an expired entry is deleted, a
\* live one is touched
after_get(c, key, namespace) ==
    LET full_key == full_key_of(namespace, key)
    IN  IF full_key \notin DOMAIN c.memory_cache THEN c
        ELSE IF is_expired(c.memory_cache[full_key])
            THEN after_delete(c, key, namespace)
        ELSE [c EXCEPT !.access_order = Append(Without(@, full_key), full_key)]

\* CacheManager.clear, lines 157-173; no namespace (None, written <<>>)
\* clears all
after_clear(c, namespace) ==
    IF namespace # <<>>
    THEN LET keys_to_remove ==
                 {k \in DOMAIN c.memory_cache :
                      startswith(k, namespace \o <<":">>)}
         IN  [memory_cache |->
                  [k \in (DOMAIN c.memory_cache) \ keys_to_remove |-> c.memory_cache[k]],
              namespace_stats |-> DictSet(c.namespace_stats, namespace, NoStats),
              access_order |->
                  SelectSeq(c.access_order, LAMBDA k : k \notin keys_to_remove)]
    ELSE [memory_cache |-> EmptyDict, namespace_stats |-> EmptyDict,
          access_order |-> <<>>]

outside_cache ==
    <<team_vars, plan_vars, agent_vars, config_vars, run_vars, progress_vars,
      tracker_vars, file_vars>>

\* await cache.set(key, value, namespace, ttl_seconds)
set(key, value, namespace, ttl_seconds) ==
    /\ set_calls < MaxSets
    /\ set_calls' = set_calls + 1
    /\ CacheBecomes(after_set(TheCache, key, value, namespace, ttl_seconds))
    /\ stored' = DictSet(stored, <<namespace, key>>, value)
    /\ last_op' = [op |-> "set", namespace |-> namespace, key |-> key,
                   evicted |->
                       DOMAIN after_set(TheCache, key, value, namespace,
                                        ttl_seconds).memory_cache
                       # (DOMAIN memory_cache) \cup {full_key_of(namespace, key)}]
    /\ UNCHANGED max_memory_bytes
    /\ UNCHANGED outside_cache

\* await cache.get(key, namespace)
get(key, namespace) ==
    /\ CacheBecomes(after_get(TheCache, key, namespace))
    /\ last_op' = [op |-> "get", namespace |-> namespace, key |-> key,
                   evicted |-> FALSE]
    /\ UNCHANGED <<max_memory_bytes, set_calls, stored>>
    /\ UNCHANGED outside_cache

\* await cache.delete(key, namespace)
delete(key, namespace) ==
    /\ CacheBecomes(after_delete(TheCache, key, namespace))
    /\ stored' = [p \in DOMAIN stored |->
                      IF p = <<namespace, key>> THEN "None" ELSE stored[p]]
    /\ last_op' = [op |-> "delete", namespace |-> namespace, key |-> key,
                   evicted |-> FALSE]
    /\ UNCHANGED <<max_memory_bytes, set_calls>>
    /\ UNCHANGED outside_cache

\* await cache.clear(namespace)
clear(namespace) ==
    /\ CacheBecomes(after_clear(TheCache, namespace))
    /\ stored' = [p \in DOMAIN stored |->
                      IF namespace = <<>> \/ p[1] = namespace THEN "None"
                      ELSE stored[p]]
    /\ last_op' = [op |-> "clear", namespace |-> namespace, key |-> <<>>,
                   evicted |-> FALSE]
    /\ UNCHANGED <<max_memory_bytes, set_calls>>
    /\ UNCHANGED outside_cache

\* time passes beyond the expires_at of an entry that was set with a ttl
expire(full_key) ==
    /\ full_key \in DOMAIN memory_cache
    /\ memory_cache[full_key].has_ttl
    /\ ~memory_cache[full_key].expired
    /\ memory_cache' = [memory_cache EXCEPT ![full_key].expired = TRUE]
    /\ last_op' = [op |-> "expire", namespace |-> <<>>, key |-> <<>>,
                   evicted |-> FALSE]
    /\ UNCHANGED <<namespace_stats, access_order, max_memory_bytes, set_calls, stored>>
    /\ UNCHANGED outside_cache

\* CacheManager(cache_dir, max_memory_mb=...) with no cache files on disk
CacheSpecInit ==
    /\ TeamIdle
    /\ PlanInit /\ AgentInit /\ role = "Test Agent" /\ ConfigInit /\ ProgressInit
    /\ TrackerInit /\ FileInit
    /\ EmptyCache
    /\ max_memory_bytes \in SmallLimits

CacheNext ==
    \/ \E namespace \in CacheNamespaces : \E key \in CacheKeys :
           \/ \E value \in CacheValues : \E ttl_seconds \in TTLs :
                  set(key, value, namespace, ttl_seconds)
           \/ get(key, namespace)
           \/ delete(key, namespace)
    \/ \E namespace \in CacheNamespaces \cup {<<>>} : clear(namespace)
    \/ \E full_key \in DOMAIN memory_cache : expire(full_key)

CacheSpec == CacheSpecInit /\ [][CacheNext]_vars

----------------------------------------------------------------------------
(* C36 *)

\* the full keys of the entries of a namespace, in access order
EntriesOf(namespace) ==
    SelectSeq(access_order, LAMBDA fk : memory_cache[fk].namespace = namespace)

\* C36: for every namespace, entry_count is the number of entries of the
\* namespace in the memory cache and total_size is the sum of their
\* size_bytes.
StatsMatchEntries ==
    \A namespace \in CacheNamespaces :
        /\ StatsOf(namespace_stats, namespace).entry_count =
               Len(EntriesOf(namespace))
        /\ StatsOf(namespace_stats, namespace).total_size =
               SizeUpTo(memory_cache, EntriesOf(namespace),
                        Len(EntriesOf(namespace)))

----------------------------------------------------------------------------
(* C37 *)

\* the value last set for the pair and not deleted or cleared since
StoredFor(namespace, key) ==
    IF <<namespace, key>> \in DOMAIN stored THEN stored[<<namespace, key>>]
    ELSE "None"

\* the cache after the step
TheCacheAfter ==
    [memory_cache |-> memory_cache',
     namespace_stats |-> namespace_stats',
     access_order |-> access_order']

\* C37: get returns the value last set for the same (namespace, key), or
\* None; right after a set that evicted nothing it returns the value set;
\* and a set, delete or clear addressed to another namespace, evicting
\* nothing, leaves the result of get unchanged.
GetReturnsLastSetOfSamePair ==
    /\ [](\A namespace \in CacheNamespaces : \A key \in CacheKeys :
             get_returns(TheCache, key, namespace)
                 \in {"None", StoredFor(namespace, key)})
    /\ [][/\ (last_op'.op = "set" /\ ~last_op'.evicted) =>
                 get_returns(TheCacheAfter, last_op'.key, last_op'.namespace)
                     = stored'[<<last_op'.namespace, last_op'.key>>]
          /\ \A namespace \in CacheNamespaces : \A key \in CacheKeys :
                 (/\ last_op'.op \in {"set", "delete", "clear"}
                  /\ last_op'.namespace # <<>>
                  /\ last_op'.namespace # namespace
                  /\ ~last_op'.evicted) =>
                     get_returns(TheCacheAfter, key, namespace)
                         = get_returns(TheCache, key, namespace)]_vars

----------------------------------------------------------------------------
(* AgentTools: the files of the workspace and their cached content *)

path_a == <<"a">>

path_b == <<"b">>

Paths == {path_a, path_b}

\* file contents: the empty file and two one-character files
FileContents == {"", "x", "y"}

\* the namespace parameter's default, "default"
default_namespace == <<"d", "e", "f", "a", "u", "l", "t">>

\* f"file:{file_path}"
file_key(file_path) == <<"f", "i", "l", "e", ":">> \o file_path

\* str.replace on a content of at most one character
replace(content, search_pattern, replacement) ==
    IF content = search_pattern THEN replacement ELSE content

\* the truth value of a cached content (line 51): None and "" are false
truthy(content) == content # "None" /\ content # ""

\* full_path.exists() and the content read from the file
on_disk(file_path) == IF file_path \in DOMAIN disk THEN disk[file_path] ELSE "None"

\* the value read_file returns, lines 46-68
read_file_returns(file_path, use_cache) ==
    IF use_cache /\ truthy(get_returns(TheCache, file_key(file_path), default_namespace))
    THEN get_returns(TheCache, file_key(file_path), default_namespace)
    ELSE on_disk(file_path)

\* stored and last_op record the calls made on a CacheManager directly;
\* the calls AgentTools makes are counted in set_calls only
outside_files ==
    <<team_vars, plan_vars, agent_vars, config_vars, run_vars, progress_vars,
      tracker_vars, max_memory_bytes, stored, last_op>>

\* a call of cache_manager.set made by AgentTools
CacheSetBy(c, file_path, content) ==
    /\ set_calls < MaxSets
    /\ set_calls' = set_calls + 1
    /\ CacheBecomes(after_set(c, file_key(file_path), content, default_namespace, "300"))

\* AgentTools.read_file, lines 46-68
read_file(file_path, use_cache) ==
    /\ IF ~use_cache
       THEN UNCHANGED <<memory_cache, namespace_stats, access_order, set_calls>>
       ELSE LET looked_up == after_get(TheCache, file_key(file_path), default_namespace)
            IN  IF truthy(get_returns(TheCache, file_key(file_path), default_namespace))
                   \/ on_disk(file_path) = "None"
                THEN CacheBecomes(looked_up) /\ UNCHANGED set_calls
                ELSE CacheSetBy(looked_up, file_path, on_disk(file_path))
    /\ UNCHANGED disk
    /\ UNCHANGED outside_files

\* AgentTools.write_file, lines 70-87
write_file(file_path, content) ==
    /\ disk' = DictSet(disk, file_path, content)
    /\ CacheSetBy(TheCache, file_path, content)
    /\ UNCHANGED outside_files

\* AgentTools.copy_file, lines 192-210
copy_file(source, destination) ==
    /\ disk' = IF source \in DOMAIN disk
               THEN DictSet(disk, destination, disk[source])
               ELSE disk
    /\ UNCHANGED <<memory_cache, namespace_stats, access_order, set_calls>>
    /\ UNCHANGED outside_files

\* AgentTools.move_file, lines 212-228
move_file(source, destination) ==
    /\ disk' = IF source \in DOMAIN disk /\ source # destination
               THEN DictDel(DictSet(disk, destination, disk[source]), source)
               ELSE disk
    /\ UNCHANGED <<memory_cache, namespace_stats, access_order, set_calls>>
    /\ UNCHANGED outside_files

\* AgentTools.delete_file, lines 230-246
delete_file(file_path) ==
    /\ IF file_path \in DOMAIN disk
       THEN /\ disk' = DictDel(disk, file_path)
            /\ CacheBecomes(after_delete(TheCache, file_key(file_path),
                                         default_namespace))
       ELSE UNCHANGED <<disk, memory_cache, namespace_stats, access_order>>
    /\ UNCHANGED set_calls
    /\ UNCHANGED outside_files

\* AgentTools.search_and_replace, lines 304-326, with use_regex = False
search_and_replace(file_path, search_pattern, replacement) ==
    IF on_disk(file_path) # "None"
       /\ replace(on_disk(file_path), search_pattern, replacement) # on_disk(file_path)
    THEN write_file(file_path, replace(on_disk(file_path), search_pattern, replacement))
    ELSE /\ UNCHANGED <<disk, memory_cache, namespace_stats, access_order, set_calls>>
         /\ UNCHANGED outside_files

\* AgentTools(workspace_path, cache_dir) on an empty workspace
FileSpecInit == TeamIdle /\ OtherInit

FileNext ==
    \/ \E file_path \in Paths : \E use_cache \in BOOLEAN : read_file(file_path, use_cache)
    \/ \E file_path \in Paths : \E content \in FileContents :
           write_file(file_path, content)
    \/ \E source \in Paths : \E destination \in Paths : copy_file(source, destination)
    \/ \E source \in Paths : \E destination \in Paths : move_file(source, destination)
    \/ \E file_path \in Paths : delete_file(file_path)
    \/ \E file_path \in Paths : \E search_pattern \in {"x", "y"} :
           \E replacement \in FileContents :
               search_and_replace(file_path, search_pattern, replacement)
    \/ \E full_key \in DOMAIN memory_cache : expire(full_key)

FileSpec == FileSpecInit /\ [][FileNext]_vars

----------------------------------------------------------------------------
(* C38 *)

\* C38: read_file(path) returns the same with use_cache=True as with
\* use_cache=False: the current content of the file, or None when the file
\* does not exist.
CachedReadIsUncachedRead ==
    \A file_path \in Paths :
        read_file_returns(file_path, TRUE) = read_file_returns(file_path, FALSE)

====
